---- MODULE Spec2Model ----
(***************************************************************************)
(* DuneGuide.AI (src/app.py): a Streamlit script.  Every interaction runs  *)
(* main() once; st.session_state survives from one run to the next.  The   *)
(* vector store (db.query) and the hosted model (generate_content) are     *)
(* external: their outcome is a nondeterministic choice.                   *)
(* Text is modelled as a sequence of tokens; a token is one character, or  *)
(* a block of fixed text that contains no quote character.                 *)
(***************************************************************************)
EXTENDS Integers, Sequences, FiniteSets, TLC

\* ---------------------------------------------------------------- bounds
MaxRuns == 3        \* runs of main() in one session
MaxDocs == 2        \* documents the store holds for one query

\* ------------------------------------------------------ program constants
N_RESULTS == 5      \* get_relevant_passages(user_query, db, 5)

SQ == "'"
DQ == "\""
NL == "\n"

\* text the user may type into st.text_input (<<>> is the empty input)
Queries == { <<>>, <<"q">>, <<SQ, "q", DQ>> }
\* documents stored in the collection
PassageTexts == { <<"a">>, <<SQ, "b", DQ>>, <<DQ>> }
\* the fixed text of the else branch of main()
FallbackText == << "Sorry, I couldn", SQ, "t find any relevant deals. Please try another query!" >>
\* response.text of the hosted model: any text, the fallback wording included
Responses == { <<"g">>, <<>>, FallbackText }

Min(a, b) == IF a < b THEN a ELSE b

RECURSIVE SeqsUpTo(_, _)
SeqsUpTo(S, n) ==
    IF n = 0 THEN { <<>> }
    ELSE LET shorter == SeqsUpTo(S, n - 1)
         IN  shorter \cup { Append(s, x) : s \in { t \in shorter : Len(t) = n - 1 }, x \in S }

\* ------------------------------------------------------- python values
None == [none |-> TRUE, items |-> <<>>]
List(xs) == [none |-> FALSE, items |-> xs]
Truthy_IsNotNone(v) == ~v.none

\* truth value of `if passages:` for None or a list
Truthy(v) == ~v.none /\ Len(v.items) > 0

\* ------------------------------------------------------- the vector store
\* outcomes of db.query(query_texts=[query], n_results=n)
db_query(query, n) ==
    { [kind |-> "raise", documents |-> <<>>],          \* the call raises
      [kind |-> "empty_result", documents |-> <<>>],   \* a falsy result
      [kind |-> "missing_key", documents |-> <<>>],    \* result without 'documents'
      [kind |-> "documents_none", documents |-> <<>>], \* result['documents'] is None
      [kind |-> "documents", documents |-> <<>>] }     \* result['documents'] == []
    \cup { [kind |-> "documents", documents |-> <<d>>] \* one ranked list per query
           : d \in SeqsUpTo(PassageTexts, Min(n, MaxDocs)) }
NotCalled == [kind |-> "not_called", documents |-> <<>>]

\* outcomes of model.generate_content(prompt) followed by response.text
NotGenerated == [kind |-> "not_called", text |-> <<>>]
GenRaise == [kind |-> "raise", text |-> <<>>]
GenText(t) == [kind |-> "text", text |-> t]

\* the backend call, or the subscript on its result, raised inside the try
Raised(r) == r.kind \in {"raise", "missing_key"}
\* number of documents the store found for the query
FoundDocs(r) == IF r.kind = "documents" /\ Len(r.documents) > 0
                THEN Len(r.documents[1]) ELSE 0

\* ------------------------------------------------------- pure functions
get_relevant_passages_NoWarning(r) ==
    IF Raised(r) THEN [value |-> None, st_error |-> FALSE]
    ELSE IF r.kind = "documents" /\ Len(r.documents) > 0
         THEN [value |-> List(r.documents[1]), st_error |-> FALSE]
         ELSE [value |-> None, st_error |-> FALSE]

\* lines 25-33, applied to the outcome r of db.query
get_relevant_passages(r) ==
    IF Raised(r) THEN [value |-> None, st_error |-> TRUE]
    ELSE IF r.kind = "documents" /\ Len(r.documents) > 0
         THEN [value |-> List(r.documents[1]), st_error |-> FALSE]
         ELSE [value |-> None, st_error |-> FALSE]

\* str.replace(ch, "")
Remove(s, ch) == SelectSeq(s, LAMBDA c : c # ch)

RECURSIVE Join(_, _)
\* sep.join(parts)
Join(sep, parts) ==
    IF Len(parts) = 0 THEN <<>>
    ELSE IF Len(parts) = 1 THEN parts[1]
    ELSE parts[1] \o sep \o Join(sep, Tail(parts))

convert_passages_to_string(ps) == Join(<<NL>>, ps)

escape_OnlySingle(relevant_passage) == Remove(relevant_passage, SQ)

\* line 40
escape(relevant_passage) == Remove(Remove(relevant_passage, SQ), DQ)

\* the three fixed blocks of the template, lines 41-58
TemplateHead == << NL, "You are a chatbot specializing in helping users find deals for tourist attractions in Dubai.",
                   NL, NL, "User", SQ, "s question: " >>
TemplateMid  == << NL, NL, "Context information about available deals:", NL >>
TemplateTail == << NL, NL, "Your response must be detailed, friendly, and helpful.", NL,
                   "Provide recommendations for deals related to the user", SQ, "s query, including:", NL,
                   "- Attraction name", NL, "- Deal description", NL,
                   "- Price (in AED and USD, assuming a fixed exchange rate)", NL,
                   "- Relevant tips (e.g., operating hours, best visit times, nearby attractions)", NL, NL,
                   "Ensure the response is conversational and encourages the user to ask follow-up questions.", NL,
                   "Also note that for Burj Khalifa only return Burj Khalifa deals and for burj al arab only return burj al arab deals.", NL >>

make_prompt(query, relevant_passage) ==
    TemplateHead \o query \o TemplateMid \o escape(relevant_passage) \o TemplateTail

\* ------------------------------------------------------------- the state
VARIABLES
    session_state,   \* st.session_state: a function from its keys to values
    user_query,      \* the value of st.text_input in the current run
    pc,              \* position of the current run of main()
    runs,            \* runs of main() started so far
    db_result,       \* outcome of this run's db.query
    passages,        \* the local `passages`
    prompt,          \* the local `prompt`
    queryCalls,      \* db.query calls issued in this run
    genCalls,        \* generate_content calls issued in this run
    gen_result,      \* outcome of this run's generate_content
    page,            \* what this run has put on the page
    turnStart,       \* length of the log when this run began
    prevRaised       \* the backend raised in some earlier run

vars == << session_state, user_query, pc, runs, db_result, passages, prompt,
           queryCalls, genCalls, gen_result, page, turnStart, prevRaised >>

HistKey == "conversation_history"
NoKeys == [k \in {} |-> <<>>]

\* the conversation log as an observer sees it
Log == IF HistKey \in DOMAIN session_state THEN session_state[HistKey] ELSE <<>>

Message(role, content) == [role |-> role, content |-> content]

EnsureHistory_Reset(ss) == [k \in {HistKey} |-> <<>>]

\* lines 98-99
EnsureHistory(ss) ==
    IF HistKey \notin DOMAIN ss THEN [k \in {HistKey} |-> <<>>] ELSE ss

\* st.session_state["conversation_history"].append(m)
AppendHistory(ss, m) == [ss EXCEPT ![HistKey] = Append(@, m)]

\* lines 138-142
Render(log) ==
    [i \in 1..Len(log) |->
        (IF log[i].role = "user" THEN <<"**You:** ">> ELSE <<"**DuneGuide:** ">>)
        \o log[i].content]

BlankPage == [errors |-> 0, markdown |-> <<>>, rendered |-> FALSE]

Init ==
    /\ session_state = NoKeys
    /\ user_query = <<>>
    /\ pc = "Idle"
    /\ runs = 0
    /\ db_result = NotCalled
    /\ passages = None
    /\ prompt = <<>>
    /\ queryCalls = 0
    /\ genCalls = 0
    /\ gen_result = NotGenerated
    /\ page = BlankPage
    /\ turnStart = 0
    /\ prevRaised = FALSE

\* a run of main() can start: no run is in progress
CanStart == pc \in {"Idle", "Aborted"} /\ runs < MaxRuns

\* what every run does on entry, lines 89-113
StartRun(q) ==
    /\ user_query' = q
    /\ runs' = runs + 1
    /\ db_result' = NotCalled
    /\ passages' = None
    /\ prompt' = <<>>
    /\ queryCalls' = 0
    /\ genCalls' = 0
    /\ gen_result' = NotGenerated
    /\ turnStart' = Len(Log)
    /\ prevRaised' = (prevRaised \/ Raised(db_result))

EmptyRun_AppendsInput ==
    /\ CanStart
    /\ StartRun(<<>>)
    /\ LET ss == AppendHistory(EnsureHistory(session_state), Message("user", <<>>))
       IN  /\ session_state' = ss
           /\ page' = [errors |-> 0, markdown |-> Render(ss[HistKey]), rendered |-> TRUE]
    /\ pc' = "Idle"

\* main() with an empty text input: lines 89-115, then 138-142
EmptyRun ==
    /\ CanStart
    /\ StartRun(<<>>)
    /\ LET ss == EnsureHistory(session_state)
       IN  /\ session_state' = ss
           /\ page' = [errors |-> 0, markdown |-> Render(ss[HistKey]), rendered |-> TRUE]
    /\ pc' = "Idle"

\* main() with a non-empty text input, up to line 117
Submit(q) ==
    /\ CanStart
    /\ q # <<>>
    /\ StartRun(q)
    /\ session_state' = AppendHistory(EnsureHistory(session_state), Message("user", q))
    /\ page' = BlankPage
    /\ pc' = "QuerySubmitted"

\* line 26: the one db.query call of get_relevant_passages
QueryStore ==
    /\ pc = "QuerySubmitted"
    /\ \E r \in db_query(user_query, N_RESULTS) : db_result' = r
    /\ queryCalls' = queryCalls + 1
    /\ pc' = "Retrieving"
    /\ UNCHANGED << gen_result, session_state, user_query, runs, passages, prompt, genCalls,
                    page, turnStart, prevRaised >>

\* lines 27-33, then lines 120-122
RetrieverReturn ==
    /\ pc = "Retrieving"
    /\ LET ret == get_relevant_passages(db_result)
       IN  /\ passages' = ret.value
           /\ page' = [page EXCEPT !.errors = @ + (IF ret.st_error THEN 1 ELSE 0)]
           /\ pc' = IF Truthy(ret.value) THEN "Composing" ELSE "NoMatch"
    /\ UNCHANGED << gen_result, session_state, user_query, runs, db_result, prompt, queryCalls,
                    genCalls, turnStart, prevRaised >>

\* lines 124-125
Compose ==
    /\ pc = "Composing"
    /\ prompt' = make_prompt(user_query, convert_passages_to_string(passages.items))
    /\ pc' = "Generating"
    /\ UNCHANGED << gen_result, session_state, user_query, runs, db_result, passages, queryCalls,
                    genCalls, page, turnStart, prevRaised >>

\* lines 128-132, the call returns
GenerateReturns(text) ==
    /\ pc = "Generating"
    /\ genCalls' = genCalls + 1
    /\ gen_result' = GenText(text)
    /\ session_state' = AppendHistory(session_state, Message("assistant", text))
    /\ pc' = "Responded"
    /\ UNCHANGED << user_query, runs, db_result, passages, prompt, queryCalls,
                    page, turnStart, prevRaised >>

GenerateRaises_Caught ==
    /\ pc = "Generating"
    /\ genCalls' = genCalls + 1
    /\ gen_result' = GenRaise
    /\ session_state' = AppendHistory(session_state, Message("assistant", FallbackText))
    /\ pc' = "Responded"
    /\ UNCHANGED << user_query, runs, db_result, passages, prompt, queryCalls,
                    page, turnStart, prevRaised >>

GenerateRaises_Retry ==
    /\ pc = "Generating"
    /\ genCalls < 2
    /\ genCalls' = genCalls + 1
    /\ gen_result' = GenRaise
    /\ pc' = IF genCalls = 0 THEN "Generating" ELSE "Aborted"
    /\ UNCHANGED << session_state, user_query, runs, db_result, passages, prompt,
                    queryCalls, page, turnStart, prevRaised >>

\* lines 128-132, the call (or response.text) raises: nothing in main()
\* catches it, the run ends there
GenerateRaises ==
    /\ pc = "Generating"
    /\ genCalls' = genCalls + 1
    /\ gen_result' = GenRaise
    /\ pc' = "Aborted"
    /\ UNCHANGED << session_state, user_query, runs, db_result, passages, prompt,
                    queryCalls, page, turnStart, prevRaised >>

\* lines 133-135
NoMatchRespond ==
    /\ pc = "NoMatch"
    /\ session_state' = AppendHistory(session_state, Message("assistant", FallbackText))
    /\ pc' = "Responded"
    /\ UNCHANGED << gen_result, user_query, runs, db_result, passages, prompt, queryCalls,
                    genCalls, page, turnStart, prevRaised >>

\* lines 138-142 at the end of a turn
RenderLog ==
    /\ pc = "Responded"
    /\ page' = [page EXCEPT !.markdown = Render(Log), !.rendered = TRUE]
    /\ pc' = "Idle"
    /\ UNCHANGED << gen_result, session_state, user_query, runs, db_result, passages, prompt,
                    queryCalls, genCalls, turnStart, prevRaised >>

Next ==
    \/ EmptyRun
    \/ \E q \in Queries : Submit(q)
    \/ QueryStore
    \/ RetrieverReturn
    \/ Compose
    \/ \E t \in Responses : GenerateReturns(t)
    \/ GenerateRaises
    \/ NoMatchRespond
    \/ RenderLog

Spec == Init /\ [][Next]_vars

\* ------------------------------------------------------------ properties
IsPrefix(a, b) == Len(a) <= Len(b) /\ SubSeq(b, 1, Len(a)) = a
IsQuote(c) == c \in {SQ, DQ}
UserMessage == Message("user", user_query)
FallbackMessage == Message("assistant", FallbackText)
\* this run's retrieval has returned
Retrieved == db_result.kind # "not_called" /\ pc # "Retrieving"
\* this run's store query raised or found no document
NoPassagesFound == db_result.kind # "not_called" /\ (Raised(db_result) \/ FoundDocs(db_result) = 0)
\* a turn (a run with a non-empty query) is over
TurnOver == runs > 0 /\ user_query # <<>> /\ pc \in {"Idle", "Aborted"}
\* the part of the prompt between the template's middle and tail blocks
ContextSection ==
    SubSeq(prompt, Len(TemplateHead) + Len(user_query) + Len(TemplateMid) + 1,
           Len(prompt) - Len(TemplateTail))

\* C1: every user message that is not the last message of the log is
\* immediately followed by an assistant message.
C1_NoAdjacentUsers ==
    \A i \in 1..(Len(Log) - 1) :
        Log[i].role = "user" => Log[i + 1].role = "assistant"

\* C2: in a turn whose retrieval found no passage or raised, generate_content
\* is never invoked, the turn goes through NoMatch only, and the message
\* appended right after the user message is exactly the fallback text.
C2_FallbackNoGeneration ==
    NoPassagesFound =>
        /\ genCalls = 0
        /\ gen_result = NotGenerated
        /\ pc \in {"Retrieving", "NoMatch", "Responded", "Idle"}
        /\ pc \in {"Retrieving", "NoMatch"} => Len(Log) = turnStart + 1
        /\ pc \in {"Responded", "Idle"} =>
              /\ Len(Log) = turnStart + 2
              /\ Log[turnStart + 2] = FallbackMessage

C2_Witness ==
    /\ pc = "Idle"
    /\ page.rendered
    /\ db_result.kind = "documents"
    /\ Len(db_result.documents) = 1
    /\ FoundDocs(db_result) = 0
    /\ Log[Len(Log)] = FallbackMessage

\* C3: every turn ends in Responded: when a turn with a non-empty query is
\* over, an assistant message has been appended for it.
C3_TurnEndsResponded ==
    TurnOver =>
        /\ Len(Log) = turnStart + 2
        /\ Log[turnStart + 1] = UserMessage
        /\ Log[turnStart + 2].role = "assistant"

\* C4: get_relevant_passages returns None whenever the store's query raised
\* or its result holds zero documents for the query; a non-null sequence is
\* returned only when at least one passage was found.
C4_NullWhenNoDocs ==
    (Retrieved /\ NoPassagesFound) => passages = None

\* C5: the composed prompt holds the query verbatim, and its context section
\* is the passages joined by newlines with every ' and " removed, so the
\* section holds no quote character.
C5_PromptContent ==
    (pc = "Generating") =>
        LET joined == Join(<<NL>>, passages.items)
            ctx    == ContextSection
        IN  /\ SubSeq(prompt, Len(TemplateHead) + 1, Len(TemplateHead) + Len(user_query))
                 = user_query
            /\ SubSeq(prompt, 1, Len(TemplateHead)) = TemplateHead
            /\ SubSeq(prompt, Len(prompt) - Len(TemplateTail) + 1, Len(prompt)) = TemplateTail
            /\ ctx = SelectSeq(joined, LAMBDA c : ~IsQuote(c))
            /\ \A i \in 1..Len(ctx) : ~IsQuote(ctx[i])

C5_Witness ==
    /\ pc = "Generating"
    /\ \E i \in 1..Len(user_query) : IsQuote(user_query[i])
    /\ Len(passages.items) >= 2
    /\ \E k \in 1..Len(passages.items) :
          \E i \in 1..Len(passages.items[k]) : IsQuote(passages.items[k][i])
    /\ Len(ContextSection) >= 2

\* C6: the log is empty at session start and every step leaves the old log
\* as a prefix of the new one.
C6_AppendOnly ==
    /\ Log = <<>>
    /\ [][IsPrefix(Log, Log')]_vars

C6_Witness ==
    /\ Len(Log) >= 4
    /\ runs >= 3
    /\ pc = "QuerySubmitted"

\* C7: when the store's query raises, the retriever returns None and shows
\* one error banner, the turn ends with the fallback message and the rendered
\* log, the run is not aborted, and a further query can be submitted.
C7_BackendErrorRecovered ==
    (Retrieved /\ Raised(db_result)) =>
        /\ passages = None
        /\ page.errors = 1
        /\ pc \in {"NoMatch", "Responded", "Idle"}
        /\ pc \in {"Responded", "Idle"} =>
              /\ Len(Log) = turnStart + 2
              /\ Log[turnStart + 2] = FallbackMessage
        /\ pc = "Idle" =>
              /\ page.rendered
              /\ page.markdown = Render(Log)
              /\ runs < MaxRuns => \A q \in Queries \ {<<>>} : ENABLED Submit(q)

\* a turn after the one whose store query raised went through generation
C7_Witness ==
    /\ prevRaised
    /\ pc = "Idle"
    /\ gen_result.kind = "text"
    /\ page.rendered
    /\ page.errors = 0
    /\ Len(Log) >= 4

\* C8: when the generation call raises, the run ends there: no assistant
\* message is appended for the turn, nothing is rendered, and the user
\* message of the turn stays the last message of the log.
C8_GenerationErrorPropagates ==
    (gen_result.kind = "raise") =>
        /\ pc = "Aborted"
        /\ genCalls = 1
        /\ ~page.rendered
        /\ Len(Log) = turnStart + 1
        /\ Log[turnStart + 1] = UserMessage

C8_Witness ==
    /\ gen_result.kind = "raise"
    /\ pc = "Aborted"
    /\ turnStart >= 2

\* C9: a turn issues the store query exactly once and the generation call at
\* most once, and only for a prompt composed from at least one passage that
\* this turn's retrieval returned.
C9_NoRetry ==
    /\ queryCalls <= 1
    /\ genCalls <= 1
    /\ (pc \in {"Retrieving", "Composing", "NoMatch", "Generating", "Responded", "Aborted"}
          \/ TurnOver) => queryCalls = 1
    /\ genCalls = 1 =>
          /\ queryCalls = 1
          /\ FoundDocs(db_result) >= 1
          /\ passages = List(db_result.documents[1])
          /\ prompt = make_prompt(user_query, convert_passages_to_string(passages.items))

C9_Witness ==
    /\ pc = "Idle"
    /\ queryCalls = 1
    /\ genCalls = 1
    /\ gen_result.kind = "text"
    /\ runs >= 2

\* C10: a run with an empty input leaves the log unchanged, issues no store
\* query and no generation call and renders the log; the store query of a
\* run with a non-empty input is issued after the user message was appended.
C10_EmptyRunFrame ==
    /\ [][(runs' = runs + 1 /\ user_query' = <<>>) =>
             /\ Log' = Log
             /\ queryCalls' = 0
             /\ genCalls' = 0
             /\ pc' = "Idle"
             /\ page'.markdown = Render(Log)]_vars
    /\ [][(queryCalls' = queryCalls + 1) =>
             /\ Len(Log) = turnStart + 1
             /\ Log[Len(Log)] = UserMessage
             /\ user_query # <<>>
             /\ Log' = Log]_vars

C10_Witness ==
    /\ pc = "Idle"
    /\ runs >= 2
    /\ user_query = <<>>
    /\ page.rendered
    /\ Len(Log) >= 2
    /\ page.markdown = Render(Log)

====
